---- MODULE Spec2Model ----
(***************************************************************************)
(* Job-session orchestrator of PrintJobSeeder (src/app.py).                *)
(*                                                                         *)
(* The Flask handlers start_jobs, stop_jobs, session_status and            *)
(* stream_jobs run on separate request threads (app.run serves threaded),  *)
(* sharing the module-level dictionary job_sessions without any lock.      *)
(* The generator stream_jobs.generate is the execution loop of a session;  *)
(* every attach request creates a fresh generator over the same session    *)
(* dictionary.  A generator is suspended at each yield, and the WSGI       *)
(* server closes it there (GeneratorExit, which `except Exception` does    *)
(* not catch) when the observer has gone away.                             *)
(*                                                                         *)
(* The specifications share the actions:                                   *)
(*   Spec / FairSpec  one session id, two streams: the loop's concurrency  *)
(*   UploadSpec       the same for sessions that send an uploaded file     *)
(*   RegistrySpec     two session ids: the registry                        *)
(*   QuerySpec        one session of distinct jobs, one stream, polled     *)
(*   BuildSpec        start_jobs alone over a wide set of requests: the    *)
(*                    queue builder                                        *)
(*   DelaySpec        one call of generate_random_delay                    *)
(*   DispatchSpec     one call of send_single_job[_from_buffer]            *)
(* Times are in milliseconds.                                              *)
(***************************************************************************)
EXTENDS Integers, Sequences, FiniteSets, TLC

\* ---------------------------------------------------------------- bounds
MaxSessions == 1
MaxJobs == 2
MaxStreams == 2
MaxSlices == 2
\* RegistrySpec
RegSessions == 2
RegJobs == 2
RegStreams == 1
\* BuildSpec: total number of jobs of one request
BuildJobs == 3
\* DelaySpec: the two random draws are multiples of 1/DrawSteps
DrawSteps == 10
\* DispatchSpec: job numbers
DispatchJobs == 2

\* Values of generate_random_delay (1135-1152), in milliseconds.
BurstLow == 500
BurstHigh == 3000
GapHigh == 30000
LongCap == 180000
DefaultDelay == 1000
\* Status codes that send_single_job counts as success (1665).
Accepted == {200, 201, 202}

\* No dictionary has been created under this id yet.
NoSession == [jobs |-> <<>>, results |-> <<>>, status |-> "none",
              total |-> 0, completed |-> 0, stop_requested |-> FALSE,
              temp_files |-> {}]

\* Outcomes of one dispatch: the try block of generate (1355-1389) either
\* gets a result dictionary back from send_single_job[_from_buffer], or an
\* exception escapes while the document bytes are obtained (generate_pdf,
\* shutil.copy) and the except branch (1413-1426) records error_result.
Outcomes == {"http_2xx", "http_other", "timeout", "transport_fault", "bytes_fault"}

\* Suspension points of generate at a yield: the server may close it there.
YieldPoints == {"yielded_result", "yielded_delay", "yielded_stopped", "yielded_complete"}
\* A generator has ended when it returned, was closed, or an exception
\* escaped it.
Ended == {"done", "closed", "raised"}

VARIABLES
    job_sessions,     \* keys of the registry dictionary job_sessions
    session,          \* the session dictionaries, by id (alive while referenced)
    gen,              \* generator frames of stream_jobs.generate
    stop_thread,      \* stop_jobs handlers between their two writes
    cleanup_threads,  \* number of cleanup threads started per session
    files,            \* paths that exist in UPLOAD_FOLDER
    http,             \* the request and reply of the handler that ran last
    hist              \* history of dispatches, of the cancel request and of the
                      \* cleanup threads

vars == <<job_sessions, session, gen, stop_thread, cleanup_threads, files, http, hist>>

\* uuid4 values that start_jobs may draw, and the server's request threads
\* that can run generate.
SessionIds == 1..MaxSessions
Procs == 1..MaxStreams

\* The same in whichever specification is running.
Uuids == DOMAIN session
Threads == DOMAIN gen

\* ------------------------------------------------------- pure helpers
\* The dictionary returned by send_single_job / send_single_job_from_buffer.
send_single_job(outcome, job_number) ==
    [job_number |-> job_number, success |-> (outcome = "http_2xx")]

\* error_result built by the except branch of generate.
error_result(job_number) ==
    [job_number |-> job_number, success |-> FALSE]

\* What requests.post does: a response with a status code and a body, a
\* requests.exceptions.Timeout, or another exception with its text.
Response(status_code, text) == [kind |-> "response", status_code |-> status_code, text |-> text]
Timeout == [kind |-> "timeout"]
Fault(text) == [kind |-> "fault", text |-> text]

None == "None"

\* The dictionary built in the three return statements of send_single_job
\* (1663-1695); text[:500] is the text itself for the short bodies used.
ResultDict(post, job_number, job) ==
    [job_number |-> job_number,
     success |-> IF post.kind = "response" THEN post.status_code \in Accepted ELSE FALSE,
     status_code |-> IF post.kind = "response" THEN post.status_code ELSE None,
     filename |-> job.filename, username |-> job.username,
     printer |-> job.printer, industry |-> job.industry,
     response |-> IF post.kind = "timeout" THEN "Request timed out" ELSE post.text]

\* send_single_job (1605-1695): open(file_path) may raise before the
\* request is made; that exception is caught like any other.
send_single_job_from_file(readable, post, job_number, job) ==
    IF ~readable THEN ResultDict(Fault("No such file or directory"), job_number, job)
    ELSE ResultDict(post, job_number, job)

\* A buffer variant that takes every 2xx status for a success.
send_single_job_from_buffer_Any2xx(post, job_number, job) ==
    [job_number |-> job_number,
     success |-> IF post.kind = "response"
                 THEN post.status_code >= 200 /\ post.status_code < 300 ELSE FALSE,
     status_code |-> IF post.kind = "response" THEN post.status_code ELSE None,
     filename |-> job.filename, username |-> job.username,
     printer |-> job.printer, industry |-> job.industry,
     response |-> IF post.kind = "timeout" THEN "Request timed out" ELSE post.text]

\* send_single_job_from_buffer (1698-1787).
send_single_job_from_buffer(post, job_number, job) ==
    [job_number |-> job_number,
     success |-> IF post.kind = "response" THEN post.status_code \in Accepted ELSE FALSE,
     status_code |-> IF post.kind = "response" THEN post.status_code ELSE None,
     filename |-> job.filename, username |-> job.username,
     printer |-> job.printer, industry |-> job.industry,
     response |-> IF post.kind = "timeout" THEN "Request timed out" ELSE post.text]

\* The outcomes of requests.post that the dispatch specification draws.
StatusCodes == {200, 201, 202, 204, 302, 400, 404, 500}
Posts ==
    {Response(c, t) : c \in StatusCodes, t \in {"", "ok"}}
    \cup {Timeout, Fault("Connection refused")}

\* random.uniform(a, b) = a + (b - a) * random(), the draw given in
\* DrawSteps-ths; a > b is allowed and gives a value between b and a.
uniform(a, b, u) == a + ((b - a) * u) \div DrawSteps

Min(a, b) == IF a <= b THEN a ELSE b
Max(a, b) == IF a >= b THEN a ELSE b

\* A delay policy that clamps the fixed delay into [min_delay, max_delay].
generate_random_delay_Clamped(timing_mode, fixed_delay, min_delay, max_delay, rand, u) ==
    IF timing_mode = "fixed" THEN Max(min_delay, Min(fixed_delay, max_delay))
    ELSE IF timing_mode = "random"
    THEN IF 2 * rand < DrawSteps THEN uniform(BurstLow, BurstHigh, u)
         ELSE IF 10 * rand < 8 * DrawSteps THEN uniform(BurstHigh, GapHigh, u)
         ELSE uniform(GapHigh, Min(max_delay, LongCap), u)
    ELSE DefaultDelay

\* generate_random_delay (1135-1152); rand and u are the values of
\* random.random() and of the draw inside random.uniform, in DrawSteps-ths.
generate_random_delay(timing_mode, fixed_delay, min_delay, max_delay, rand, u) ==
    IF timing_mode = "fixed" THEN fixed_delay
    ELSE IF timing_mode = "random"
    THEN IF 2 * rand < DrawSteps THEN uniform(BurstLow, BurstHigh, u)
         ELSE IF 10 * rand < 8 * DrawSteps THEN uniform(BurstHigh, GapHigh, u)
         ELSE uniform(GapHigh, Min(max_delay, LongCap), u)
    ELSE DefaultDelay

\* Timing settings that a form can carry (1170-1173): float() accepts any
\* number, nothing checks the ranges.
TimingModes == {"fixed", "random", "burst"}
Delays == {0, 200, 500, 2000, 60000, 120000, 180000, 240000}

NoError == ""
NoPath == <<>>

\* str.strip() on the texts that occur between the commas of a form field.
strip(f) ==
    CASE f = " " -> ""
      [] f = " u2 " -> "u2"
      [] f = " b" -> "b"
      [] OTHER -> f

NonEmpty(f) == f # ""

\* [x.strip() for x in s.split(',') if x.strip()]; a form field is given as
\* the sequence of the texts between its commas.
split_csv(csv) == SelectSeq([k \in 1..Len(csv) |-> strip(csv[k])], NonEmpty)

\* str.lower() on the file names that occur.
lower(name) ==
    CASE name = "a.PDF" -> "a.pdf"
      [] name = "a.PDF.pdf" -> "a.pdf.pdf"
      [] OTHER -> name

\* name.endswith('.pdf')
endswith_pdf(name) == name \in {"a.pdf", "b.pdf", "a.pdf.pdf", "b.pdf.pdf"}

\* A normalisation whose suffix test is case-sensitive.
normalize_filename_CaseSensitive(name) ==
    IF endswith_pdf(name) THEN name ELSE name \o ".pdf"

\* if not job['filename'].lower().endswith('.pdf'): job['filename'] += '.pdf'
normalize_filename(name) ==
    IF endswith_pdf(lower(name)) THEN name ELSE name \o ".pdf"

\* Round-robin that starts at the second entry of each list.
industry_jobs_OffByOne(c, temp_path) ==
    LET usernames == split_csv(c.usernames)
        printers == split_csv(c.printers)
        filenames == split_csv(c.filenames)
    IN  [k \in 1..c.num_jobs |->
            [industry |-> c.industry,
             username |-> usernames[(k % Len(usernames)) + 1],
             printer |-> printers[(k % Len(printers)) + 1],
             filename |-> normalize_filename(filenames[(k % Len(filenames)) + 1]),
             pdf_source |-> c.pdf_source,
             temp_path |-> temp_path]]

\* The jobs of one industry (1224-1238), in the order they are created.
industry_jobs(c, temp_path) ==
    LET usernames == split_csv(c.usernames)
        printers == split_csv(c.printers)
        filenames == split_csv(c.filenames)
    IN  [k \in 1..c.num_jobs |->
            [industry |-> c.industry,
             username |-> usernames[((k - 1) % Len(usernames)) + 1],
             printer |-> printers[((k - 1) % Len(printers)) + 1],
             filename |-> normalize_filename(filenames[((k - 1) % Len(filenames)) + 1]),
             pdf_source |-> c.pdf_source,
             temp_path |-> temp_path]]

BuildError(error, industry, staged) ==
    [error |-> error, industry |-> industry, jobs |-> <<>>, staged |-> staged]

\* The loop over industry_configs.items() (1189-1241): jobs built and
\* upload files saved so far; a validation error returns at once and leaves
\* the files already saved in place.
RECURSIVE build_from(_, _, _, _)
build_from(configs, k, jobs, staged) ==
    IF k > Len(configs)
    THEN IF jobs = <<>> THEN BuildError("No jobs to send", "", staged)
         ELSE [error |-> NoError, industry |-> "", jobs |-> jobs, staged |-> staged]
    ELSE LET c == configs[k]
             temp_path == IF c.pdf_source = "upload" /\ c.upload # ""
                          THEN <<c.industry, c.upload>> ELSE NoPath
         IN  IF c.num_jobs <= 0 THEN build_from(configs, k + 1, jobs, staged)
             ELSE IF split_csv(c.usernames) = <<>>
             THEN BuildError("At least one username is required", c.industry, staged)
             ELSE IF split_csv(c.printers) = <<>>
             THEN BuildError("At least one printer is required", c.industry, staged)
             ELSE IF split_csv(c.filenames) = <<>>
             THEN BuildError("At least one filename is required", c.industry, staged)
             ELSE IF c.pdf_source = "upload" /\ temp_path = NoPath
             THEN BuildError("No file uploaded", c.industry, staged)
             ELSE build_from(configs, k + 1, jobs \o industry_jobs(c, temp_path),
                             IF temp_path = NoPath THEN staged ELSE staged \cup {temp_path})

\* A builder that does not look at the URL.
build_queue_NoUrlCheck(req) ==
    IF req.configs = <<>>
    THEN BuildError("At least one industry must be configured", "", {})
    ELSE build_from(req.configs, 1, <<>>, {})

\* start_jobs up to the shuffle (1164-1241).
build_queue(req) ==
    IF ~req.url THEN BuildError("URL is required", "", {})
    ELSE IF req.configs = <<>>
    THEN BuildError("At least one industry must be configured", "", {})
    ELSE build_from(req.configs, 1, <<>>, {})

\* random.shuffle(all_jobs): any permutation.
Perms(n) == {f \in [1..n -> 1..n] : \A a, b \in 1..n : f[a] = f[b] => a = b}
\* A shuffle that loses the last job.
shuffle_Lossy(jobs, perm) == [k \in 1..(Len(jobs) - 1) |-> jobs[perm[k]]]

shuffle(jobs, perm) == [k \in 1..Len(jobs) |-> jobs[perm[k]]]

\* ------------------------------------------------------------ requests
Config(industry, n, usernames, printers, filenames, pdf_source, upload) ==
    [industry |-> industry, num_jobs |-> n, usernames |-> usernames,
     printers |-> printers, filenames |-> filenames,
     pdf_source |-> pdf_source, upload |-> upload]

Generated == {<<"generate", "">>}
Uploaded == {<<"upload", "doc.pdf">>}
Sources == Generated \cup {<<"upload", "">>, <<"upload", "doc.pdf">>}

\* Requests of the session specifications: one industry of up to maxn jobs,
\* the PDF source drawn from sources, the file names as given.
SessionRequests(maxn, sources, filenames) ==
    {[url |-> FALSE, configs |-> <<Config("healthcare", 1, <<"u1">>, <<"p1">>, <<"a">>, "generate", "")>>],
     [url |-> TRUE, configs |-> <<>>],
     [url |-> TRUE, configs |-> <<Config("healthcare", 1, <<" ">>, <<"p1">>, <<"a">>, "generate", "")>>]}
    \cup {[url |-> TRUE,
           configs |-> <<Config("healthcare", n, <<"u1">>, <<"p1">>, filenames, sc[1], sc[2])>>] :
             n \in 0..maxn, sc \in sources}

\* Requests of BuildSpec: one or two industries, at most BuildJobs jobs.
BuildConfigs(industry) ==
    {Config(industry, n, us, ps, fs, sc[1], sc[2]) :
        n \in 0..BuildJobs,
        us \in {<<"u1">>, <<"u1", " u2 ">>, <<" ">>},
        ps \in {<<"p1", "p2">>, <<"">>},
        fs \in {<<"a">>, <<"a.PDF", " b">>, <<"", " ">>},
        sc \in Sources}

BuilderRequests ==
    {[url |-> u, configs |-> <<c>>] : u \in BOOLEAN, c \in BuildConfigs("healthcare")}
    \cup {[url |-> TRUE, configs |-> <<>>]}
    \cup {[url |-> TRUE, configs |-> <<cd[1], cd[2]>>] :
            cd \in {x \in BuildConfigs("legal") \X BuildConfigs("healthcare") :
                       x[1].num_jobs + x[2].num_jobs <= BuildJobs}}

\* sum(1 for r in session['results'] if r['success'])
success_count(results) == Cardinality({k \in 1..Len(results) : results[k].success})

\* The terminal events of generate: the payload of the stopped event
\* (1347-1348) and of the complete event (1434-1435); total_jobs is
\* len(all_jobs).
NoEvent == [type |-> "none"]
stopped_event(s) ==
    [type |-> "stopped", success_count |-> success_count(s.results),
     completed |-> s.completed, total |-> Len(s.jobs)]
complete_event(s) ==
    [type |-> "complete", success_count |-> success_count(s.results),
     total |-> Len(s.jobs)]

\* Frame of generate: position, session id, loop index i, whether the last
\* result recorded was a failure, whether the except branch ran, the
\* slices of the current delay still to sleep, and the terminal event it
\* has yielded.
IdleGen == [pc |-> "idle", sid |-> 0, i |-> 0, failed |-> FALSE, exc |-> FALSE, remaining |-> 0,
            event |-> NoEvent]

\* stale has one entry per cleanup thread that is asleep, oldest first:
\* whether the session went into stopped or complete after that thread
\* was started.
NoHist == [dispatched |-> [j \in 1..MaxJobs |-> 0], late |-> FALSE,
           after_stop |-> 0, cancel_k |-> -1, repeat |-> FALSE, early |-> FALSE,
           stale |-> <<>>]

NoHttp == [handler |-> "none"]

GensOf(s) == {p \in Threads : gen[p].sid = s}
InFlight(s) == {p \in GensOf(s) : gen[p].pc = "dispatch"}

\* The job that loop p is at, and the per-job copy of the uploaded file that
\* it dispatches from: UPLOAD_FOLDER/job_{i}_{filename} (1373).
JobOf(p) == session[gen[p].sid].jobs[gen[p].i + 1]
new_file_path(p) == <<"job", gen[p].i, JobOf(p).filename>>

\* ------------------------------------------------------------- Init
InitWith(ids, procs) ==
    /\ job_sessions = {}
    /\ session = [s \in ids |-> NoSession]
    /\ gen = [p \in procs |-> IdleGen]
    /\ stop_thread = [s \in ids |-> "idle"]
    /\ cleanup_threads = [s \in ids |-> 0]
    /\ files = {}
    /\ http = NoHttp
    /\ hist = [s \in ids |-> NoHist]

Init == InitWith(SessionIds, Procs)

\* ------------------------------------------------------------ actions
\* A start_jobs that marks the new session as already running.
start_jobs_Started(sid, req, perm) ==
    LET b == build_queue(req)
    IN  /\ session[sid] = NoSession
        /\ perm \in Perms(Len(b.jobs))
        /\ files' = files \cup b.staged
        /\ IF b.error # NoError
           THEN /\ http' = [handler |-> "start_jobs", request |-> req, code |-> 400,
                            error |-> b.error, industry |-> b.industry]
                /\ UNCHANGED <<job_sessions, session>>
           ELSE /\ job_sessions' = job_sessions \cup {sid}
                /\ session' = [session EXCEPT ![sid] =
                       [jobs |-> shuffle(b.jobs, perm), results |-> <<>>, status |-> "running",
                        total |-> Len(b.jobs), completed |-> 0, stop_requested |-> FALSE,
                        temp_files |-> b.staged]]
                /\ http' = [handler |-> "start_jobs", request |-> req, code |-> 200,
                            session_id |-> sid, total_jobs |-> Len(b.jobs),
                            all_jobs |-> b.jobs]
        /\ UNCHANGED <<gen, stop_thread, cleanup_threads, hist>>

\* start_jobs: a request that fails validation is answered 400 and
\* registers nothing; otherwise the shuffled queue is registered under a
\* fresh uuid in status 'ready'.  Upload files are saved while the queue is
\* built.
start_jobs(sid, req, perm) ==
    LET b == build_queue(req)
    IN  /\ session[sid] = NoSession
        /\ perm \in Perms(Len(b.jobs))
        /\ files' = files \cup b.staged
        /\ IF b.error # NoError
           THEN /\ http' = [handler |-> "start_jobs", request |-> req, code |-> 400,
                            error |-> b.error, industry |-> b.industry]
                /\ UNCHANGED <<job_sessions, session>>
           ELSE /\ job_sessions' = job_sessions \cup {sid}
                /\ session' = [session EXCEPT ![sid] =
                       [jobs |-> shuffle(b.jobs, perm), results |-> <<>>, status |-> "ready",
                        total |-> Len(b.jobs), completed |-> 0, stop_requested |-> FALSE,
                        temp_files |-> b.staged]]
                /\ http' = [handler |-> "start_jobs", request |-> req, code |-> 200,
                            session_id |-> sid, total_jobs |-> Len(b.jobs),
                            all_jobs |-> b.jobs]
        /\ UNCHANGED <<gen, stop_thread, cleanup_threads, hist>>

\* A stop_jobs that does not look the id up.
stop_jobs_NoLookup(sid) ==
    /\ stop_thread[sid] = "idle"
    /\ session' = [session EXCEPT ![sid].stop_requested = TRUE]
    /\ stop_thread' = [stop_thread EXCEPT ![sid] = "set_status"]
    /\ hist' = [hist EXCEPT ![sid].cancel_k =
                    IF session[sid].stop_requested THEN @
                    ELSE IF InFlight(sid) = {} THEN Len(session[sid].results)
                    ELSE -1,
                ![sid].repeat = session[sid].stop_requested,
                ![sid].early = @ \/ session[sid].status = "ready"]
    /\ http' = NoHttp
    /\ UNCHANGED <<job_sessions, gen, cleanup_threads, files>>

\* stop_jobs, lines 1280-1284: lookup and session['stop_requested'] = True.
stop_jobs(sid) ==
    /\ stop_thread[sid] = "idle"
    /\ IF sid \notin job_sessions
       THEN /\ http' = [handler |-> "stop_jobs", request |-> sid, code |-> 404,
                         error |-> "Session not found"]
            /\ UNCHANGED <<job_sessions, session, gen, stop_thread, cleanup_threads, files, hist>>
       ELSE /\ session' = [session EXCEPT ![sid].stop_requested = TRUE]
            /\ stop_thread' = [stop_thread EXCEPT ![sid] = "set_status"]
            /\ hist' = [hist EXCEPT ![sid].cancel_k =
                            IF session[sid].stop_requested THEN @
                            ELSE IF InFlight(sid) = {} THEN Len(session[sid].results)
                            ELSE -1,
                        ![sid].repeat = session[sid].stop_requested,
                        ![sid].early = @ \/ session[sid].status = "ready"]
            /\ http' = NoHttp
            /\ UNCHANGED <<job_sessions, gen, cleanup_threads, files>>

\* stop_jobs, lines 1285-1292: session['status'] = 'stopping' and the reply.
stop_jobs_status(sid) ==
    /\ stop_thread[sid] = "set_status"
    /\ session' = [session EXCEPT ![sid].status = "stopping"]
    /\ stop_thread' = [stop_thread EXCEPT ![sid] = "idle"]
    /\ hist' = [hist EXCEPT ![sid].repeat = FALSE]
    /\ http' = [handler |-> "stop_jobs", request |-> sid, code |-> 200, error |-> NoError,
                completed |-> session[sid].completed, total |-> session[sid].total]
    /\ UNCHANGED <<job_sessions, gen, cleanup_threads, files>>

\* session_status only reads.
session_status(sid) ==
    /\ http' = IF sid \notin job_sessions
               THEN [handler |-> "session_status", request |-> sid, code |-> 404,
                     error |-> "Session not found"]
               ELSE [handler |-> "session_status", request |-> sid, code |-> 200,
                     error |-> NoError,
                     status |-> session[sid].status, total |-> session[sid].total,
                     completed |-> session[sid].completed,
                     results |-> session[sid].results,
                     stop_requested |-> session[sid].stop_requested]
    /\ UNCHANGED <<job_sessions, session, gen, stop_thread, cleanup_threads, files, hist>>

\* An attach that starts the session afresh: it clears stop_requested.
stream_jobs_ClearsStop(p, sid) ==
    /\ gen[p].pc = "idle"
    /\ \A q \in Threads : q < p => gen[q].pc # "idle"
    /\ IF sid \notin job_sessions
       THEN /\ http' = [handler |-> "stream_jobs", request |-> sid, code |-> 200,
                         error |-> "Session not found"]
            /\ UNCHANGED <<job_sessions, session, gen, stop_thread, cleanup_threads, files, hist>>
       ELSE /\ session' = [session EXCEPT ![sid].status = "running",
                                          ![sid].stop_requested = FALSE]
            /\ gen' = [gen EXCEPT ![p] = [IdleGen EXCEPT !.pc = "loop_top", !.sid = sid]]
            /\ http' = NoHttp
            /\ UNCHANGED <<job_sessions, stop_thread, cleanup_threads, files, hist>>

\* An attach that puts the queue in the reverse order.
stream_jobs_Reshuffles(p, sid) ==
    /\ gen[p].pc = "idle"
    /\ \A q \in Threads : q < p => gen[q].pc # "idle"
    /\ IF sid \notin job_sessions
       THEN /\ http' = [handler |-> "stream_jobs", request |-> sid, code |-> 200,
                         error |-> "Session not found"]
            /\ UNCHANGED <<job_sessions, session, gen, stop_thread, cleanup_threads, files, hist>>
       ELSE /\ session' = [session EXCEPT ![sid].status = "running",
                              ![sid].jobs = [k \in DOMAIN @ |-> @[Len(@) + 1 - k]]]
            /\ gen' = [gen EXCEPT ![p] = [IdleGen EXCEPT !.pc = "loop_top", !.sid = sid]]
            /\ http' = NoHttp
            /\ UNCHANGED <<job_sessions, stop_thread, cleanup_threads, files, hist>>

\* stream_jobs + the first run of generate up to the for statement
\* (1324-1341): unknown id -> the stream (HTTP 200) carries one error event
\* and ends; else status = running.
stream_jobs(p, sid) ==
    /\ gen[p].pc = "idle"
    /\ \A q \in Threads : q < p => gen[q].pc # "idle"
    /\ IF sid \notin job_sessions
       THEN /\ http' = [handler |-> "stream_jobs", request |-> sid, code |-> 200,
                         error |-> "Session not found"]
            /\ UNCHANGED <<job_sessions, session, gen, stop_thread, cleanup_threads, files, hist>>
       ELSE /\ session' = [session EXCEPT ![sid].status = "running"]
            /\ gen' = [gen EXCEPT ![p] = [IdleGen EXCEPT !.pc = "loop_top", !.sid = sid]]
            /\ http' = NoHttp
            /\ UNCHANGED <<job_sessions, stop_thread, cleanup_threads, files, hist>>

\* Every cleanup thread that is asleep was started before this moment.
AllStale(stale) == [k \in DOMAIN stale |-> TRUE]

\* Head of one iteration (1343-1356, and 1373-1374 for an uploaded source),
\* or the code after the loop when the queue is exhausted: with no staged
\* file left the yield of the complete event (1428-1435), else the test
\* os.path.exists of the staged file (1430), which a session of these
\* specifications has at most one of.
LoopTop(p) ==
    LET s == gen[p].sid
        i == gen[p].i
    IN  /\ gen[p].pc = "loop_top"
        /\ IF i >= Len(session[s].jobs)
           THEN /\ IF session[s].temp_files \cap files = {}
                   THEN gen' = [gen EXCEPT ![p].pc = "yielded_complete",
                                           ![p].event = complete_event(session[s])]
                   ELSE gen' = [gen EXCEPT ![p].pc = "remove_temp"]
                /\ UNCHANGED <<session, files, hist>>
           ELSE IF session[s].stop_requested
           THEN /\ session' = [session EXCEPT ![s].status = "stopped"]
                /\ gen' = [gen EXCEPT ![p].pc = "yielded_stopped",
                                      ![p].event = stopped_event(session[s])]
                /\ hist' = [hist EXCEPT ![s].stale =
                                IF session[s].status # "stopped" THEN AllStale(@) ELSE @]
                /\ UNCHANGED files
           ELSE IF /\ session[s].jobs[i + 1].pdf_source # "generate"
                   /\ session[s].jobs[i + 1].temp_path \notin files
           THEN \* shutil.copy raises: the except branch records error_result
                /\ session' = [session EXCEPT ![s].results = Append(@, error_result(i + 1))]
                /\ gen' = [gen EXCEPT ![p].pc = "appended", ![p].failed = TRUE,
                                      ![p].exc = TRUE]
                /\ hist' = [hist EXCEPT ![s].dispatched[i + 1] = @ + 1,
                                        ![s].late = @ \/ session[s].stop_requested]
                /\ UNCHANGED files
           ELSE /\ gen' = [gen EXCEPT ![p].pc = "dispatch"]
                /\ hist' = [hist EXCEPT ![s].dispatched[i + 1] = @ + 1,
                                        ![s].late = @ \/ session[s].stop_requested]
                /\ UNCHANGED <<session, files>>
        /\ http' = NoHttp
        /\ UNCHANGED <<job_sessions, stop_thread, cleanup_threads>>

\* A loop that keeps only the latest result.
DispatchReturn_Overwrites(p, outcome) ==
    LET s == gen[p].sid
        i == gen[p].i
        result == IF outcome = "bytes_fault" THEN error_result(i + 1)
                  ELSE send_single_job(outcome, i + 1)
    IN  /\ gen[p].pc = "dispatch"
        /\ session' = [session EXCEPT ![s].results = <<result>>]
        /\ gen' = [gen EXCEPT ![p].pc = "appended", ![p].failed = ~result.success,
                              ![p].exc = (outcome = "bytes_fault")]
        /\ hist' = [hist EXCEPT ![s].after_stop =
               IF session[s].stop_requested THEN @ + 1 ELSE @]
        /\ http' = NoHttp
        /\ UNCHANGED <<job_sessions, stop_thread, cleanup_threads, files>>

\* The dispatch returns (1391) or raises (1413-1424): the result is appended.
DispatchReturn(p, outcome) ==
    LET s == gen[p].sid
        i == gen[p].i
        result == IF outcome = "bytes_fault" THEN error_result(i + 1)
                  ELSE send_single_job(outcome, i + 1)
    IN  /\ gen[p].pc = "dispatch"
        /\ session' = [session EXCEPT ![s].results = Append(@, result)]
        /\ gen' = [gen EXCEPT ![p].pc = "appended", ![p].failed = ~result.success,
                              ![p].exc = (outcome = "bytes_fault")]
        /\ hist' = [hist EXCEPT ![s].after_stop =
               IF session[s].stop_requested THEN @ + 1 ELSE @]
        /\ http' = NoHttp
        /\ UNCHANGED <<job_sessions, stop_thread, cleanup_threads, files>>

\* session['completed'] = i + 1 and the yield of the job_result event
\* (1392-1395, 1425-1426).
SetCompleted(p) ==
    LET s == gen[p].sid
    IN  /\ gen[p].pc = "appended"
        /\ session' = [session EXCEPT ![s].completed = gen[p].i + 1]
        /\ gen' = [gen EXCEPT ![p].pc = "yielded_result"]
        /\ http' = NoHttp
        /\ UNCHANGED <<job_sessions, stop_thread, cleanup_threads, files, hist>>

\* A loop that gives up after a failed job instead of going on.
AfterResult_AbortOnFailure(p) ==
    LET s == gen[p].sid
        i == gen[p].i
    IN  /\ gen[p].pc = "yielded_result"
        /\ IF gen[p].failed
           THEN gen' = [gen EXCEPT ![p].pc = "done"]
           ELSE IF ~gen[p].exc /\ i < Len(session[s].jobs) - 1
           THEN \E d \in 0..MaxSlices :
                    gen' = [gen EXCEPT ![p].pc = "yielded_delay", ![p].failed = FALSE,
                                       ![p].remaining = d]
           ELSE gen' = [gen EXCEPT ![p].pc = "loop_top", ![p].i = i + 1,
                                   ![p].failed = FALSE, ![p].exc = FALSE]
        /\ http' = NoHttp
        /\ UNCHANGED <<job_sessions, session, stop_thread, cleanup_threads, files, hist>>

\* After the job_result event: the delay event (1398-1402) unless this was
\* the last job or the except branch ran; otherwise the next iteration.
AfterResult(p) ==
    LET s == gen[p].sid
        i == gen[p].i
    IN  /\ gen[p].pc = "yielded_result"
        /\ IF ~gen[p].exc /\ i < Len(session[s].jobs) - 1
           THEN \E d \in 0..MaxSlices :
                    gen' = [gen EXCEPT ![p].pc = "yielded_delay", ![p].failed = FALSE,
                                       ![p].remaining = d]
           ELSE gen' = [gen EXCEPT ![p].pc = "loop_top", ![p].i = i + 1,
                                   ![p].failed = FALSE, ![p].exc = FALSE]
        /\ http' = NoHttp
        /\ UNCHANGED <<job_sessions, session, stop_thread, cleanup_threads, files, hist>>

\* First test of the sleep loop (1405-1410).
DelayWait(p) ==
    LET s == gen[p].sid
    IN  /\ gen[p].pc = "yielded_delay"
        /\ IF gen[p].remaining = 0 \/ session[s].stop_requested
           THEN gen' = [gen EXCEPT ![p].pc = "loop_top", ![p].i = @ + 1, ![p].remaining = 0]
           ELSE gen' = [gen EXCEPT ![p].pc = "sleeping"]
        /\ http' = NoHttp
        /\ UNCHANGED <<job_sessions, session, stop_thread, cleanup_threads, files, hist>>

\* A sleep loop that does not look at stop_requested.
SleepWake_IgnoresStop(p) ==
    LET s == gen[p].sid
        left == gen[p].remaining - 1
    IN  /\ gen[p].pc = "sleeping"
        /\ IF left = 0
           THEN gen' = [gen EXCEPT ![p].pc = "loop_top", ![p].i = @ + 1, ![p].remaining = 0]
           ELSE gen' = [gen EXCEPT ![p].remaining = left]
        /\ http' = NoHttp
        /\ UNCHANGED <<job_sessions, session, stop_thread, cleanup_threads, files, hist>>

\* time.sleep returns (1410-1411) and the loop tests again (1406-1408).
SleepWake(p) ==
    LET s == gen[p].sid
        left == gen[p].remaining - 1
    IN  /\ gen[p].pc = "sleeping"
        /\ IF left = 0 \/ session[s].stop_requested
           THEN gen' = [gen EXCEPT ![p].pc = "loop_top", ![p].i = @ + 1, ![p].remaining = 0]
           ELSE gen' = [gen EXCEPT ![p].remaining = left]
        /\ http' = NoHttp
        /\ UNCHANGED <<job_sessions, session, stop_thread, cleanup_threads, files, hist>>

\* os.remove of the staged file: the file that was there at the test is
\* removed, or, when another loop has removed it since, FileNotFoundError
\* escapes generate.  After the loop (1431) the complete event is yielded
\* next (1434-1435); after the stopped event (1352) generate returns.
RemoveTemp(p) ==
    LET s == gen[p].sid
    IN  /\ gen[p].pc \in {"remove_temp", "remove_temp_stopped"}
        /\ IF session[s].temp_files \subseteq files
           THEN /\ files' = files \ session[s].temp_files
                /\ gen' = IF gen[p].pc = "remove_temp"
                          THEN [gen EXCEPT ![p].pc = "yielded_complete",
                                           ![p].event = complete_event(session[s])]
                          ELSE [gen EXCEPT ![p].pc = "done"]
           ELSE /\ gen' = [gen EXCEPT ![p].pc = "raised"]
                /\ UNCHANGED files
        /\ http' = NoHttp
        /\ UNCHANGED <<job_sessions, session, stop_thread, cleanup_threads, hist>>

\* After the stopped event (1349-1353): with no staged file left generate
\* returns, else the test os.path.exists of the staged file (1351).
StoppedReturn(p) ==
    /\ gen[p].pc = "yielded_stopped"
    /\ gen' = [gen EXCEPT ![p].pc =
                  IF session[gen[p].sid].temp_files \cap files = {}
                  THEN "done" ELSE "remove_temp_stopped"]
    /\ http' = NoHttp
    /\ UNCHANGED <<job_sessions, session, stop_thread, cleanup_threads, files, hist>>

\* After the complete event: status = complete, cleanup thread (1437-1444).
Finish(p) ==
    LET s == gen[p].sid
    IN  /\ gen[p].pc = "yielded_complete"
        /\ session' = [session EXCEPT ![s].status = "complete"]
        /\ cleanup_threads' = [cleanup_threads EXCEPT ![s] = @ + 1]
        /\ gen' = [gen EXCEPT ![p].pc = "done"]
        /\ hist' = [hist EXCEPT ![s].stale =
                        Append(IF session[s].status # "complete" THEN AllStale(@) ELSE @, FALSE)]
        /\ http' = NoHttp
        /\ UNCHANGED <<job_sessions, stop_thread, files>>

\* The observer went away: the server closes the generator at its yield.
Close(p) ==
    /\ gen[p].pc \in YieldPoints
    /\ gen' = [gen EXCEPT ![p].pc = "closed"]
    /\ http' = NoHttp
    /\ UNCHANGED <<job_sessions, session, stop_thread, cleanup_threads, files, hist>>

\* cleanup thread: after the sleep, del job_sessions[session_id]
\* (1440-1443).  Every thread sleeps the same 300 s, so the threads of a
\* session wake in the order they were started.
cleanup(sid) ==
    /\ cleanup_threads[sid] > 0
    /\ cleanup_threads' = [cleanup_threads EXCEPT ![sid] = @ - 1]
    /\ job_sessions' = job_sessions \ {sid}
    /\ hist' = [hist EXCEPT ![sid].stale = Tail(@)]
    /\ http' = NoHttp
    /\ UNCHANGED <<session, gen, stop_thread, files>>

\* One call of generate_random_delay.
delay_call(timing_mode, fixed_delay, min_delay, max_delay, rand, u) ==
    /\ http' = [handler |-> "generate_random_delay", timing_mode |-> timing_mode,
                fixed_delay |-> fixed_delay, min_delay |-> min_delay,
                max_delay |-> max_delay, rand |-> rand,
                delay |-> generate_random_delay(timing_mode, fixed_delay, min_delay,
                                                max_delay, rand, u)]
    /\ UNCHANGED <<job_sessions, session, gen, stop_thread, cleanup_threads, files, hist>>

\* One call of send_single_job (variant "file") or
\* send_single_job_from_buffer (variant "buffer").
dispatch_call(variant, readable, post, job_number, job) ==
    /\ http' = [handler |-> "send_single_job", variant |-> variant, post |-> post,
                readable |-> readable, job_number |-> job_number, job |-> job,
                result |-> IF variant = "file"
                           THEN send_single_job_from_file(readable, post, job_number, job)
                           ELSE send_single_job_from_buffer(post, job_number, job)]
    /\ UNCHANGED <<job_sessions, session, gen, stop_thread, cleanup_threads, files, hist>>

GenStep(p) ==
    \/ LoopTop(p)
    \/ \E o \in Outcomes : DispatchReturn(p, o)
    \/ SetCompleted(p)
    \/ AfterResult(p)
    \/ DelayWait(p)
    \/ SleepWake(p)
    \/ RemoveTemp(p)
    \/ StoppedReturn(p)
    \/ Finish(p)

Create(requests) ==
    \E sid \in Uuids, req \in requests :
        \E perm \in Perms(Len(build_queue(req).jobs)) : start_jobs(sid, req, perm)

Next ==
    \/ Create(SessionRequests(MaxJobs, Generated, <<"a">>))
    \/ \E sid \in Uuids : stop_jobs(sid)
    \/ \E sid \in Uuids : stop_jobs_status(sid)
    \/ \E p \in Threads, sid \in Uuids : stream_jobs(p, sid)
    \/ \E p \in Threads : GenStep(p)
    \/ \E p \in Threads : Close(p)
    \/ \E sid \in Uuids : cleanup(sid)

Spec == Init /\ [][Next]_vars

\* Every runnable thread eventually runs: the loop's blocking calls are
\* bounded (30 s request timeout, finite delays), the handlers do not block.
FairSpec ==
    /\ Spec
    /\ \A p \in Procs : WF_vars(GenStep(p))
    /\ \A sid \in SessionIds : WF_vars(stop_jobs_status(sid))
    /\ \A sid \in SessionIds : WF_vars(cleanup(sid))

\* RegSessions session ids and RegStreams streams, queues of at most RegJobs
\* jobs, generated or uploaded; session_status is polled.
RegistryInit == InitWith(1..RegSessions, 1..RegStreams)

RegistryNext ==
    \/ Create(SessionRequests(RegJobs, Sources, <<"a">>))
    \/ \E sid \in Uuids : stop_jobs(sid)
    \/ \E sid \in Uuids : stop_jobs_status(sid)
    \/ \E sid \in Uuids : session_status(sid)
    \/ \E p \in Threads, sid \in Uuids : stream_jobs(p, sid)
    \/ \E p \in Threads : GenStep(p)
    \/ \E p \in Threads : Close(p)
    \/ \E sid \in Uuids : cleanup(sid)

RegistrySpec == RegistryInit /\ [][RegistryNext]_vars

\* The loop's concurrency for sessions whose jobs send an uploaded file.
UploadNext ==
    \/ Create(SessionRequests(MaxJobs, Uploaded, <<"a">>))
    \/ \E sid \in Uuids : stop_jobs(sid)
    \/ \E sid \in Uuids : stop_jobs_status(sid)
    \/ \E p \in Threads, sid \in Uuids : stream_jobs(p, sid)
    \/ \E p \in Threads : GenStep(p)
    \/ \E p \in Threads : Close(p)
    \/ \E sid \in Uuids : cleanup(sid)

UploadSpec == Init /\ [][UploadNext]_vars

\* One session whose jobs differ, one stream, session_status polled.
QueryInit == InitWith(SessionIds, 1..RegStreams)

QueryNext ==
    \/ Create(SessionRequests(MaxJobs, Generated, <<"a", " b">>))
    \/ \E sid \in Uuids : stop_jobs(sid)
    \/ \E sid \in Uuids : stop_jobs_status(sid)
    \/ \E sid \in Uuids : session_status(sid)
    \/ \E p \in Threads, sid \in Uuids : stream_jobs(p, sid)
    \/ \E p \in Threads : GenStep(p)
    \/ \E p \in Threads : Close(p)
    \/ \E sid \in Uuids : cleanup(sid)

QuerySpec == QueryInit /\ [][QueryNext]_vars

\* One start_jobs request, drawn from the requests of the queue builder,
\* against a server that has answered nothing yet.
BuildNext == http = NoHttp /\ Create(BuilderRequests)

BuildSpec == Init /\ [][BuildNext]_vars

\* generate_random_delay alone, called once.
DelayNext ==
    /\ http = NoHttp
    /\ \E timing_mode \in TimingModes, fixed_delay \in Delays, min_delay \in {0, 500},
          max_delay \in Delays, rand \in 0..(DrawSteps - 1), u \in 0..DrawSteps :
           delay_call(timing_mode, fixed_delay, min_delay, max_delay, rand, u)

DelaySpec == Init /\ [][DelayNext]_vars

\* The two dispatch functions alone, called once; a buffer can always be
\* read.
DispatchNext ==
    /\ http = NoHttp
    /\ \E variant \in {"file", "buffer"}, readable \in BOOLEAN, post \in Posts,
          job_number \in 1..DispatchJobs :
           \E job \in {industry_jobs(Config("healthcare", 1, <<"u1">>, <<"p1">>, <<f>>,
                                            "generate", ""), NoPath)[1] : f \in {"a", "a.PDF"}} :
               /\ (variant = "buffer" => readable)
               /\ dispatch_call(variant, readable, post, job_number, job)

DispatchSpec == Init /\ [][DispatchNext]_vars

\* ------------------------------------------------------------ claims
StatusEdges == {<<"ready", "running">>, <<"running", "complete">>,
                <<"running", "stopping">>, <<"stopping", "stopped">>}

Count(seq, job_number) == Cardinality({k \in 1..Len(seq) : seq[k].job_number = job_number})

\* C1: a session's status changes only along Ready->Running,
\* Running->Complete, Running->Stopping and Stopping->Stopped.
C1_StatusEdges ==
    [][\A s \in SessionIds :
          (session[s].status # "none" /\ session'[s].status # session[s].status)
              => <<session[s].status, session'[s].status>> \in StatusEdges]_vars

\* C2: if cancellation was requested after k < total jobs had completed and
\* while no dispatch was in flight, then at the step that ends the session's
\* (last running) loop exactly k results exist and the status is Stopped.
C2_CancellationTruncation ==
    [][\A s \in SessionIds :
          ( /\ \E p \in GensOf(s) : gen[p].pc \notin Ended /\ gen'[p].pc \in Ended
            /\ \A q \in GensOf(s) : gen'[q].pc \in Ended
            /\ hist[s].cancel_k >= 0
            /\ hist[s].cancel_k < session[s].total )
              => /\ Len(session'[s].results) = hist[s].cancel_k
                 /\ session'[s].status = "stopped"]_vars

\* C3: every queue position that entered the loop has exactly one result
\* (at least one once its iteration is over, never two), positions never
\* dispatched have none, and len(results) never exceeds total.
C3_OneResultPerPosition ==
    \A s \in SessionIds :
        /\ Len(session[s].results) <= session[s].total
        /\ \A j \in 1..session[s].total :
              /\ Count(session[s].results, j) <= 1
              /\ (\E p \in GensOf(s) : gen[p].i >= j) => Count(session[s].results, j) >= 1
              /\ hist[s].dispatched[j] = 0 => Count(session[s].results, j) = 0

\* C4: results[i].job_number == i+1 for every index i of results.
C4_ResultOrder ==
    \A s \in SessionIds :
        \A k \in 1..Len(session[s].results) : session[s].results[k].job_number = k

\* C5: two dispatches of one session are never in flight at the same time.
C5_NoConcurrentDispatch ==
    \A s \in SessionIds : Cardinality(InFlight(s)) <= 1

\* C6: a repeated attach starts no second execution of the queue: no queue
\* position of a session is dispatched a second time.
C6_AttachIdempotent ==
    \A s \in SessionIds : \A j \in 1..MaxJobs : hist[s].dispatched[j] <= 1

\* The generator p has just recorded a failed result for position j, which
\* is not the last one, and no cancellation is requested.
FailedAt(p, j) ==
    /\ gen[p].pc = "appended"
    /\ gen[p].i = j
    /\ gen[p].failed
    /\ j < session[gen[p].sid].total - 1
    /\ ~session[gen[p].sid].stop_requested

C8_RunsToTerminal ==
    \A s \in SessionIds :
        session[s].status = "running" => \E p \in GensOf(s) : gen[p].pc \notin Ended

\* C9: once cancel_requested is true no new dispatch is started, and at most
\* one dispatch (the one in flight at the request) is recorded afterwards.
C9_CancelStopsDispatch ==
    \A s \in SessionIds : ~hist[s].late /\ hist[s].after_stop <= 1

\* C10: a cancel request on a session that is not Running leaves its status
\* unchanged.
C10_CancelOnlyFromRunning ==
    [][\A s \in SessionIds :
          (stop_thread[s] = "set_status" /\ stop_thread'[s] = "idle"
              /\ session[s].status # "running")
              => session'[s].status = session[s].status]_vars

\* C11: a cancel request made when stop_requested is already true leaves
\* every field of the session unchanged.
C11_RepeatedCancelNoOp ==
    [][\A s \in SessionIds :
          (\/ stop_thread[s] = "idle" /\ stop_thread'[s] = "set_status"
                 /\ session[s].stop_requested
           \/ stop_thread[s] = "set_status" /\ stop_thread'[s] = "idle"
                 /\ hist[s].repeat)
              => session'[s] = session[s]]_vars

\* C12: a status of stopped or complete never changes again.
C12_TerminalIsFinal ==
    [][\A s \in SessionIds :
          session[s].status \in {"stopped", "complete"}
              => session'[s].status = session[s].status]_vars

\* C13: a registered session whose loop has ended in complete or stopped
\* has an eviction scheduled.
C13_EvictionScheduled ==
    \A s \in SessionIds :
        (/\ s \in job_sessions
         /\ session[s].status \in {"complete", "stopped"}
         /\ \A p \in GensOf(s) : gen[p].pc = "done")
            => cleanup_threads[s] > 0

\* C14: the eviction step never deletes an entry whose status is running or
\* stopping.
C14_NoEvictionWhileRunning ==
    [][\A s \in SessionIds :
          (s \in job_sessions /\ s \notin job_sessions')
              => session[s].status \notin {"running", "stopping"}]_vars

\* C15: when a loop of a session has stopped executing, whichever way, none
\* of the session's staged upload files is left.
C15_CleanupOnEveryExit ==
    \A p \in Threads :
        gen[p].pc \in Ended => session[gen[p].sid].temp_files \cap files = {}

\* The step just taken is a reply of handler h.
Replied(h) == vars' # vars /\ http'.handler = h

\* C16: a successful start_jobs adds exactly one session, under an id that
\* was not registered, in status ready with empty results, completed 0,
\* stop_requested false and total = length of the queue; it changes no other
\* session and starts no loop; no job of a session is dispatched before a
\* stream is attached to it.
C16_CreateRegistersOnly ==
    /\ [][(Replied("start_jobs") /\ http'.code = 200) =>
            LET sid == http'.session_id
            IN  /\ sid \notin job_sessions
                /\ job_sessions' = job_sessions \cup {sid}
                /\ session'[sid].status = "ready"
                /\ session'[sid].results = <<>>
                /\ session'[sid].completed = 0
                /\ ~session'[sid].stop_requested
                /\ session'[sid].total = Len(session'[sid].jobs)
                /\ http'.total_jobs = session'[sid].total
                /\ \A s \in Uuids \ {sid} : session'[s] = session[s]
                /\ gen' = gen
                /\ hist' = hist]_vars
    /\ [](\A s \in Uuids : GensOf(s) = {} =>
            /\ session[s].results = <<>>
            /\ \A j \in DOMAIN hist[s].dispatched : hist[s].dispatched[j] = 0)

\* A session is created while another one is being executed.
C16_Witness ==
    /\ http.handler = "start_jobs"
    /\ http.code = 200
    /\ session[http.session_id].status = "ready"
    /\ \E s \in Uuids \ {http.session_id} :
          /\ session[s].status = "running"
          /\ Len(session[s].results) > 0

\* Sum of the industries' num_jobs.
RECURSIVE SumJobs(_)
SumJobs(configs) ==
    IF configs = <<>> THEN 0
    ELSE Head(configs).num_jobs + SumJobs(Tail(configs))

\* A request that fails validation: no URL, no industry, an industry with
\* num_jobs > 0 that has an empty usernames, printers or filenames list or is
\* upload-sourced without a file, or no job in total.
InvalidRequest(req) ==
    \/ ~req.url
    \/ req.configs = <<>>
    \/ \E k \in DOMAIN req.configs :
          LET c == req.configs[k]
          IN  /\ c.num_jobs > 0
              /\ \/ split_csv(c.usernames) = <<>>
                 \/ split_csv(c.printers) = <<>>
                 \/ split_csv(c.filenames) = <<>>
                 \/ c.pdf_source = "upload" /\ c.upload = ""
    \/ SumJobs(req.configs) = 0

\* C17: a start_jobs request that fails validation is answered with an error
\* and registers nothing: the registry and every session are unchanged and
\* nothing is queued or dispatched.
C17_InvalidRequestRejected ==
    [][(Replied("start_jobs") /\ InvalidRequest(http'.request)) =>
          /\ http'.code = 400
          /\ http'.error # NoError
          /\ job_sessions' = job_sessions
          /\ session' = session
          /\ gen' = gen
          /\ hist' = hist]_vars

\* The second industry of a request is rejected after the first one passed.
C17_Witness ==
    /\ http.handler = "start_jobs"
    /\ http.code = 400
    /\ Len(http.request.configs) = 2
    /\ http.request.configs[1].num_jobs > 0
    /\ http.error = "No file uploaded"
    /\ http.industry = "healthcare"
    /\ job_sessions = {}

\* The step just taken is a not-found reply of stop_jobs, session_status or
\* stream_jobs.
NotFoundReply ==
    /\ vars' # vars
    /\ http'.handler \in {"stop_jobs", "session_status", "stream_jobs"}
    /\ http'.error = "Session not found"

\* C18: a cancel, status query or attach for an id that is not in the
\* registry (never created, or evicted) is answered not found and changes
\* nothing: for such an id no cancel is recorded, no snapshot is returned and
\* no loop is started, and a not-found reply leaves the registry, the
\* sessions, the loops and the dispatch history as they were.
C18_UnknownIdNotFound ==
    [][/\ NotFoundReply =>
            /\ http'.request \notin job_sessions
            /\ UNCHANGED <<job_sessions, session, gen, stop_thread,
                           cleanup_threads, files, hist>>
       /\ \A sid \in Uuids : sid \notin job_sessions =>
            /\ ~(stop_thread[sid] = "idle" /\ stop_thread'[sid] = "set_status")
            /\ ~(Replied("session_status") /\ http'.error = NoError /\ http'.request = sid)
            /\ \A p \in Threads :
                  (gen[p].pc = "idle" /\ gen'[p].pc # "idle") => gen'[p].sid # sid]_vars

\* A cancel for an id that was evicted after its session completed, while
\* another session is registered.
C18_Witness ==
    /\ http.handler = "stop_jobs"
    /\ http.error = "Session not found"
    /\ session[http.request].status = "complete"
    /\ job_sessions # {}

\* The industry keys of a request.
IndustryKeys(req) == {req.configs[k].industry : k \in DOMAIN req.configs}

\* C19: for a valid request the queue that is registered has as many jobs as
\* the industries' num_jobs add up to, and every job's industry is one of
\* the keys of the request.
C19_QueueCompleteness ==
    [][(Replied("start_jobs") /\ ~InvalidRequest(http'.request)) =>
          /\ http'.code = 200
          /\ LET jobs == session'[http'.session_id].jobs
             IN  /\ Len(jobs) = SumJobs(http'.request.configs)
                 /\ http'.total_jobs = Len(jobs)
                 /\ \A k \in DOMAIN jobs : jobs[k].industry \in IndustryKeys(http'.request)]_vars

\* A queue of two industries, BuildJobs jobs in all, is registered.
C19_Witness ==
    /\ http.handler = "start_jobs"
    /\ http.code = 200
    /\ Len(http.request.configs) = 2
    /\ Len(session[http.session_id].jobs) = BuildJobs
    /\ {session[http.session_id].jobs[k].industry :
            k \in DOMAIN session[http.session_id].jobs} = {"legal", "healthcare"}

\* Number of jobs that the industries before the k-th put in the queue.
JobsBefore(configs, k) == SumJobs(SubSeq(configs, 1, k - 1))

\* C20: before the shuffle, the i-th job (from 0) of each industry with
\* num_jobs > 0 has the username, the printer and the file name at index
\* i mod length of the industry's lists, the file name as given or with
\* ".pdf" appended.
C20_RoundRobin ==
    [][(Replied("start_jobs") /\ http'.code = 200) =>
          \A k \in DOMAIN http'.request.configs :
              LET c == http'.request.configs[k]
                  usernames == split_csv(c.usernames)
                  printers == split_csv(c.printers)
                  filenames == split_csv(c.filenames)
              IN  c.num_jobs > 0 =>
                    \A i \in 0..(c.num_jobs - 1) :
                        LET job == http'.all_jobs[JobsBefore(http'.request.configs, k) + i + 1]
                            given == filenames[(i % Len(filenames)) + 1]
                        IN  /\ job.industry = c.industry
                            /\ job.username = usernames[(i % Len(usernames)) + 1]
                            /\ job.printer = printers[(i % Len(printers)) + 1]
                            /\ job.filename \in {given, given \o ".pdf"}]_vars

\* An industry whose lists have two entries gets BuildJobs jobs: the
\* round-robin wraps around.
C20_Witness ==
    /\ http.handler = "start_jobs"
    /\ http.code = 200
    /\ Len(http.all_jobs) = BuildJobs
    /\ Len(http.request.configs) = 1
    /\ Len(split_csv(http.request.configs[1].usernames)) = 2
    /\ Len(split_csv(http.request.configs[1].filenames)) = 2
    /\ http.all_jobs[3].username = http.all_jobs[1].username
    /\ http.all_jobs[2].username # http.all_jobs[1].username

\* C22: a dispatch is a success exactly when a response with status 200,
\* 201 or 202 was received; another status is a failure carrying that
\* status; a timeout is a failure with no status and the response
\* 'Request timed out'; any other fault is a failure with no status; the
\* file variant and the buffer variant give the same result.
C22_DispatchClassification ==
    http.handler = "send_single_job" =>
        LET post == http.post
            result == http.result
            received == http.readable /\ post.kind = "response"
        IN  /\ result.success <=> (received /\ post.status_code \in {200, 201, 202})
            /\ received => result.status_code = post.status_code
            /\ (http.readable /\ post.kind = "timeout") =>
                  /\ ~result.success
                  /\ result.status_code = None
                  /\ result.response = "Request timed out"
            /\ ~received => (~result.success /\ result.status_code = None)
            /\ result.job_number = http.job_number
            /\ http.readable =>
                  send_single_job_from_file(TRUE, post, http.job_number, http.job)
                      = send_single_job_from_buffer(post, http.job_number, http.job)

\* The buffer variant got a 204, which is not a success.
C22_Witness ==
    /\ http.handler = "send_single_job"
    /\ http.variant = "buffer"
    /\ http.post.kind = "response"
    /\ http.post.status_code = 204
    /\ ~http.result.success
    /\ http.result.status_code = 204

\* C23: in random mode every delay lies within 0.5 s and
\* max(180 s, max_delay).
C23_RandomDelayBounds ==
    (http.handler = "generate_random_delay" /\ http.timing_mode = "random") =>
        /\ http.delay >= 500
        /\ http.delay <= Max(180000, http.max_delay)

\* C24: in fixed mode the delay is fixed_delay whatever min_delay and
\* max_delay are; in a mode that is neither fixed nor random it is 1.0 s.
C24_FixedAndDefaultDelay ==
    http.handler = "generate_random_delay" =>
        /\ http.timing_mode = "fixed" => http.delay = http.fixed_delay
        /\ http.timing_mode \notin {"fixed", "random"} => http.delay = 1000

\* A fixed delay above max_delay is returned as it is.
C24_Witness ==
    /\ http.handler = "generate_random_delay"
    /\ http.timing_mode = "fixed"
    /\ http.fixed_delay > http.max_delay
    /\ http.delay = http.fixed_delay

\* C25: every job of a built queue has a non-empty file name ending in
\* ".pdf" in some letter case; a configured name without the suffix got
\* exactly ".pdf" appended, a name with the suffix in any case is unchanged,
\* and normalising a file name of the queue again changes nothing.
C25_FilenameNormalized ==
    (http.handler = "start_jobs" /\ http.code = 200) =>
        /\ \A k \in DOMAIN session[http.session_id].jobs :
              LET filename == session[http.session_id].jobs[k].filename
              IN  /\ filename # ""
                  /\ endswith_pdf(lower(filename))
                  /\ normalize_filename(filename) = filename
        /\ \A k \in DOMAIN http.request.configs :
              LET c == http.request.configs[k]
                  filenames == split_csv(c.filenames)
              IN  \A i \in 0..(c.num_jobs - 1) :
                      LET job == http.all_jobs[JobsBefore(http.request.configs, k) + i + 1]
                          given == filenames[(i % Len(filenames)) + 1]
                      IN  job.filename =
                              IF endswith_pdf(lower(given)) THEN given ELSE given \o ".pdf"

\* A queue with one name that had the suffix in upper case and one that
\* got it appended.
C25_Witness ==
    /\ http.handler = "start_jobs"
    /\ http.code = 200
    /\ \E k \in DOMAIN http.all_jobs : http.all_jobs[k].filename = "a.PDF"
    /\ \E k \in DOMAIN http.all_jobs : http.all_jobs[k].filename = "b.pdf"

IsPrefix(a, b) == Len(a) <= Len(b) /\ SubSeq(b, 1, Len(a)) = a

\* C21: the results that a status query returns are the session's results
\* at that moment, and every step leaves the results it found as a prefix of
\* the results it leaves: an earlier query's results are a prefix of a later
\* query's.
C21_ResultsAppendOnly ==
    [][/\ \A s \in Uuids : IsPrefix(session[s].results, session'[s].results)
       /\ (Replied("session_status") /\ http'.error = NoError) =>
             /\ http'.results = session'[http'.request].results
             /\ session' = session]_vars

\* A status query answered between the first and the second job.
C21_Witness ==
    /\ http.handler = "session_status"
    /\ http.error = NoError
    /\ Len(http.results) = 1
    /\ session[http.request].total = 2
    /\ session[http.request].status = "running"

InUse(s) ==
    /\ session[s].status # "none"
    /\ \A p \in GensOf(s) : gen[p].pc \notin Ended

\* C27: while the staged files of a session are in use, no creation of
\* another session saves a file over one of them and nothing but the
\* session's own loop removes one of them.
C27_StagedFilesReadOnly ==
    [][\A s \in Uuids : InUse(s) =>
          \A path \in session[s].temp_files :
              /\ (path \in files /\ path \notin files') =>
                    \E p \in GensOf(s) : gen'[p] # gen[p]
              /\ \A t \in Uuids \ {s} :
                    (session[t].status = "none" /\ session'[t].status # "none")
                        => path \notin session'[t].temp_files]_vars

\* Loop p is dispatching a job from a copy of an uploaded file.
ReadsCopy(p) == gen[p].pc = "dispatch" /\ JobOf(p).pdf_source = "upload"

\* C28: no two jobs that are in flight at the same time read the same
\* per-job copy.
C28_IndependentCopies ==
    \A p, q \in Threads :
        (p # q /\ ReadsCopy(p) /\ ReadsCopy(q)) => new_file_path(p) # new_file_path(q)

\* Loop p takes a step that is not the closing of its stream.
Resumes(p) == gen'[p] # gen[p] /\ gen'[p].pc # "closed"

C30_DelayPlacement ==
    [][\A p \in Procs :
          LET s == gen[p].sid
              last == gen[p].i = Len(session[s].jobs) - 1
          IN  /\ (gen[p].pc = "yielded_result" /\ Resumes(p)) =>
                    /\ (~last /\ ~session[s].stop_requested) => gen'[p].pc = "yielded_delay"
                    /\ last => gen'[p].pc = "loop_top"
              /\ (gen[p].pc \in {"yielded_delay", "sleeping"} /\ gen'[p].pc = "loop_top") =>
                    (gen[p].remaining <= 1 \/ session[s].stop_requested)]_vars

\* Loop p yields a terminal event in this step.
Emits(p) == gen[p].event = NoEvent /\ gen'[p].event # NoEvent

\* C31: in the step in which a loop yields the complete event the session's
\* status is complete, and in the step in which it yields the stopped event
\* the status is stopped.
C31_StatusBeforeEvent ==
    [][\A p \in Procs :
          Emits(p) =>
              /\ gen'[p].event.type = "complete" => session'[gen[p].sid].status = "complete"
              /\ gen'[p].event.type = "stopped" => session'[gen[p].sid].status = "stopped"]_vars

\* C32: when a terminal event is yielded, its success_count is the number of
\* successful entries of results, its total is the length of the queue, and
\* the completed of a stopped event is len(results).
C32_TerminalPayload ==
    [][\A p \in Procs :
          LET s == session'[gen[p].sid]
              e == gen'[p].event
          IN  Emits(p) =>
                /\ e.success_count =
                      Cardinality({k \in 1..Len(s.results) : s.results[k].success})
                /\ e.total = Len(s.jobs)
                /\ e.type = "stopped" => e.completed = Len(s.results)]_vars

\* C33: in random mode every delay is at most max_delay.
C33_DelayWithinMax ==
    (http.handler = "generate_random_delay" /\ http.timing_mode = "random") =>
        http.delay <= http.max_delay

\* C34: a session is not removed from the registry by a cleanup thread that
\* was started before the session last went into complete or stopped: its
\* 300 s end before 300 s have passed since then.
C34_GraceWindow ==
    [][\A s \in SessionIds :
          (s \in job_sessions /\ s \notin job_sessions') => ~hist[s].stale[1]]_vars

\* C35: stop_requested of a session is false when the session is created
\* and no step sets it back from true to false.
C35_CancelMonotonic ==
    [][\A s \in Uuids :
          /\ (session[s].status = "none" /\ session'[s].status # "none")
                => ~session'[s].stop_requested
          /\ session[s].stop_requested => session'[s].stop_requested]_vars

\* A status query shows the flag still set after a cancel, an attach, a
\* dispatch that was in flight, the loop's end and a second cancel.
C35_Witness ==
    /\ http.handler = "session_status"
    /\ http.error = NoError
    /\ http.stop_requested
    /\ http.status = "stopping"
    /\ Len(http.results) = 1
    /\ \E p \in GensOf(http.request) : gen[p].pc = "done"

\* C36: every reply of session_status has completed = len(results) and
\* 0 <= completed <= total.
C36_ProgressConsistent ==
    (http.handler = "session_status" /\ http.error = NoError) =>
        /\ http.completed = Len(http.results)
        /\ 0 <= http.completed
        /\ http.completed <= http.total

\* C37: status complete implies len(results) = total; status stopped implies
\* stop_requested and len(results) < total.
C37_TerminalExtent ==
    \A s \in SessionIds :
        /\ session[s].status = "complete" => Len(session[s].results) = session[s].total
        /\ session[s].status = "stopped" =>
              /\ session[s].stop_requested
              /\ Len(session[s].results) < session[s].total

\* C38: when the cancel was requested while the session was ready, no job
\* of the session is ever dispatched and its results stay empty, a loop of
\* the session yields no complete event and a stopped event carries
\* completed 0 and success_count 0, a loop that has returned has yielded the
\* stopped event, and once the loops attached have returned the status is
\* stopped.
C38_CancelBeforeAttach ==
    \A s \in SessionIds :
        hist[s].early =>
            /\ session[s].results = <<>>
            /\ \A j \in 1..MaxJobs : hist[s].dispatched[j] = 0
            /\ \A p \in GensOf(s) :
                  /\ gen[p].event.type # "complete"
                  /\ gen[p].event.type = "stopped" =>
                        (gen[p].event.completed = 0 /\ gen[p].event.success_count = 0)
                  /\ gen[p].pc = "done" => gen[p].event.type = "stopped"
            /\ (GensOf(s) # {} /\ \A p \in GensOf(s) : gen[p].pc = "done")
                  => session[s].status = "stopped"

\* C39: a run yields at most one terminal event and nothing after it, and a
\* run that ends without being closed by the server has yielded one.
C39_OneTerminalEvent ==
    [][\A p \in Procs :
          /\ gen[p].event # NoEvent =>
                /\ gen'[p].event = gen[p].event
                /\ gen'[p].pc \notin {"yielded_result", "yielded_delay"}
          /\ gen[p].pc \in Ended => gen'[p] = gen[p]
          /\ (gen[p].pc \notin Ended /\ gen'[p].pc \in Ended /\ gen'[p].pc # "closed")
                => gen'[p].event # NoEvent]_vars

\* C40: after start_jobs has answered with an error, the files in the
\* upload folder are those staged by the registered sessions.
C40_NoStagedLeftover ==
    (http.handler = "start_jobs" /\ http.code = 400) =>
        files = UNION {session[s].temp_files : s \in job_sessions}

====
